---- MODULE Spec2Model ----
(***************************************************************************)
(* Declarative Pipeline Builder: the fused stage chain, the sequential and *)
(* the chunked-parallel collect, and the statistics block, as a state      *)
(* machine.  A caller thread builds pipelines and calls collect; a         *)
(* parallel collect forks one worker per chunk, the workers run            *)
(* interleaved, and the caller joins them, merges and returns a snapshot.  *)
(* Names follow include/pipeline/pipeline.hpp (src/unnamed/part_002).      *)
(***************************************************************************)
EXTENDS Integers, Sequences, FiniteSets, TLC

\* ------------------------------------------------------------------ bounds
MaxLen == 3          \* longest source sequence
MaxStages == 2       \* most filter/transform stages in one chain
MaxThreads == 2      \* largest thread count handed to parallel()
MaxCollects == 2     \* most collect calls on one pipeline value, where it is reused
MaxLenTwo == 2       \* the same bounds for the two-pipeline program
MaxStagesTwo == 1

\* std::thread::hardware_concurrency(), the default of parallelism_
hardware_concurrency == 2

Pipes == {"A", "B"}
Values == {1, 2}
\* the durations a clock may measure for one run, in ns: none, some
Elapsed == {0, 1}
\* A pointer is <<>> (nullptr) or <<target>>.
NULL == <<>>
Ptr(x) == <<x>>
Target(ptr) == ptr[1]
NoPipe == "none"
Uninit == "uninit"

SeqsUpTo(S, n) == UNION {[1..k -> S] : k \in 0..n}

\* the sources of the programs: every sequence of Values up to a length, and
\* two sources of three different elements
Mixed == {<<1, 2, 4>>, <<4, 1, 2>>}
Sources(maxLen) == SeqsUpTo(Values, maxLen) \cup Mixed

Min_ignores_total(a, b) == a
Min(a, b) == IF a < b THEN a ELSE b

\* ------------------------------------------------- user-supplied stages
\* The lambdas of the tests: x % 2 == 0, x > 3, x * 2.
Predicates == {"even", "gt3"}
Mappers == {"dbl"}

\* Stages a caller may also hand in: a predicate and a mapper that raise on
\* the element 2, and a predicate declared noexcept:
\*   [](int x) { if (x == 2) throw std::runtime_error("2"); return true; }
\*   [](int x) { if (x == 2) throw std::runtime_error("2"); return x; }
\*   [](int x) noexcept { return x > 0; }
RaisingPredicates == {"raise2"}
RaisingMappers == {"raise2m"}
NoexceptPredicates == {"pos_noexcept"}

\* fn(v) raises
throws(fn, v) == fn \in RaisingPredicates \cup RaisingMappers /\ v = 2

\* noexcept(fn(v)): the lambda is declared noexcept
is_noexcept(fn) == fn \in NoexceptPredicates

pred(fn, v) ==
    CASE fn = "even" -> v % 2 = 0
      [] fn = "gt3" -> v > 3
      [] fn = "raise2" -> TRUE
      [] fn = "pos_noexcept" -> v > 0

tfn(fn, v) ==
    CASE fn = "dbl" -> v * 2
      [] fn = "raise2m" -> v

Stages == [kind : {"filter"}, fn : Predicates] \cup [kind : {"transform"}, fn : Mappers]

\* ------------------------------------------------------- the fused chain
\* bool operation_(const In& x, Out& out): ok is the returned bool, out the
\* value left in the out-parameter (Uninit when nothing was written to it),
\* fault how the call ended: "none" (it returned), "raised" (an exception
\* left it), "terminate" (an exception met a noexcept closure on its way
\* out: std::terminate).

\* Pipeline(): out = static_cast<Out>(x); return true
identity_not_convertible(x) == [ok |-> FALSE, out |-> Uninit, fault |-> "none"]
identity(x) == [ok |-> TRUE, out |-> x, fault |-> "none"]

\* an exception leaving a closure declared noexcept(noexcept(fn(..)))
leaves(fn) == IF is_noexcept(fn) THEN "terminate" ELSE "raised"

\* the closure built by filter(), noexcept(noexcept(pred(out))):
\*   return op(x, out) && pred(out)
filter_ignores_pred(r, fn) == [ok |-> r.ok, out |-> r.out, fault |-> r.fault]
filter_fused(r, fn) ==
    IF r.fault = "terminate" THEN r
    ELSE IF r.fault = "raised" THEN [r EXCEPT !.fault = leaves(fn)]
    ELSE IF r.ok /\ throws(fn, r.out)
         THEN [ok |-> FALSE, out |-> r.out, fault |-> leaves(fn)]
    ELSE [ok |-> r.ok /\ pred(fn, r.out), out |-> r.out, fault |-> "none"]

\* the closure built by transform(), noexcept(noexcept(tfn(declval<Out>()))):
\*   Out temp; if (!op(x, temp)) return false; out = tfn(temp); return true
transform_fused(r, fn) ==
    IF r.fault = "terminate" THEN r
    ELSE IF r.fault = "raised" THEN [r EXCEPT !.fault = leaves(fn)]
    ELSE IF ~r.ok THEN [ok |-> FALSE, out |-> Uninit, fault |-> "none"]
    ELSE IF throws(fn, r.out) THEN [ok |-> FALSE, out |-> Uninit, fault |-> leaves(fn)]
    ELSE [ok |-> TRUE, out |-> tfn(fn, r.out), fault |-> "none"]

\* operation_ of a chain: the closures nest, the last stage outermost
RECURSIVE op(_, _)
op_first_stage_outermost(chain, x) ==
    IF chain = <<>> THEN identity(x)
    ELSE IF Head(chain).kind = "filter" THEN filter_fused(op(Tail(chain), x), Head(chain).fn)
    ELSE transform_fused(op(Tail(chain), x), Head(chain).fn)
op(chain, x) ==
    IF chain = <<>> THEN identity(x)
    ELSE LET prev == SubSeq(chain, 1, Len(chain) - 1)
             st == chain[Len(chain)]
         IN IF st.kind = "filter" THEN filter_fused(op(prev, x), st.fn)
            ELSE transform_fused(op(prev, x), st.fn)

\* The user functions one call of operation_ invokes, oldest first, each as
\* [fn, arg].  c is what the prior chain invoked and r what it returned.
\* filter: op(x, out) && pred(out) evaluates pred only after op returned true
filter_calls_eager(c, r, fn) == Append(c, [fn |-> fn, arg |-> r.out])
filter_calls(c, r, fn) ==
    IF r.fault = "none" /\ r.ok THEN Append(c, [fn |-> fn, arg |-> r.out]) ELSE c

\* transform: if (!op(x, temp)) return false; comes before tfn(temp)
transform_calls_eager(c, r, fn) == Append(c, [fn |-> fn, arg |-> r.out])
transform_calls(c, r, fn) ==
    IF r.fault = "none" /\ r.ok THEN Append(c, [fn |-> fn, arg |-> r.out]) ELSE c

RECURSIVE op_calls(_, _)
op_calls(chain, x) ==
    IF chain = <<>> THEN <<>>
    ELSE LET prev == SubSeq(chain, 1, Len(chain) - 1)
             st == chain[Len(chain)]
         IN IF st.kind = "filter"
            THEN filter_calls(op_calls(prev, x), op(prev, x), st.fn)
            ELSE transform_calls(op_calls(prev, x), op(prev, x), st.fn)

\* ------------------------------------------------------------ statistics
\* struct PipelineStats, default-constructed
PipelineStats ==
    [items_processed |-> 0, items_filtered |-> 0, errors |-> 0,
     total_items |-> 0, total_duration_ns |-> 0]

\* PipelineStats::reset(), the counters the header under src/ declares
reset(s) ==
    [s EXCEPT !.items_processed = 0, !.items_filtered = 0, !.errors = 0,
              !.total_duration_ns = 0]

\* reset() of the counter that pipeline.hpp adds to the block (total_items)
keep_total_items(s) == s
reset_total_items(s) == [s EXCEPT !.total_items = 0]

\* ResultWithStats<Out>
ResultWithStats(d, processed, filtered, errs, total, duration) ==
    [data |-> d, items_processed |-> processed, items_filtered |-> filtered,
     errors |-> errs, total_items |-> total, total_duration |-> duration]

\* ----------------------------------------------------------------- state
VARIABLES
    source,          \* source[p]: the range the program hands to from() and collect()
    operation_,      \* operation_[p]: the chain, a sequence of stages
    stats_,          \* stats_[p]: NULL or a pointer to a block of local_stats
    exec_policy_,    \* exec_policy_[p]
    parallelism_,    \* parallelism_[p]
    requested,       \* requested[p]: <<threads>> of the last parallel() call, <<>> if none
    local_stats,     \* the static thread_local blocks of with_stats(), one per Pipeline type
    results,         \* results[p]: the snapshots collect has returned, oldest first
    runlog,          \* runlog[p]: for each returned snapshot, how the run went
    faults,          \* faults[p]: the collect calls that an exception ended, oldest first
    caller,          \* where the caller thread is: "idle", "spawn", "join";
                     \* "terminated" once std::terminate has ended the process
    cur,             \* the pipeline whose collect_parallel is running
    buffer,          \* collect_parallel: copy of the input
    threads,         \* collect_parallel: min(parallelism_, total)
    t,               \* collect_parallel: index of the spawn loop
    offset,          \* collect_parallel: offset of the next chunk
    local_results,   \* collect_parallel: one output buffer per thread
    workers,         \* collect_parallel: the spawned threads
    joined           \* collect_parallel: how many workers the join loop has joined

pipeVars == <<source, operation_, stats_, exec_policy_, parallelism_, requested>>
frameVars == <<caller, cur, buffer, threads, t, offset, local_results, workers, joined>>
vars == <<source, operation_, stats_, exec_policy_, parallelism_, requested,
          local_stats, results, runlog, faults,
          caller, cur, buffer, threads, t, offset, local_results, workers, joined>>


\* *stats_ of pipeline p
Deref(p) == local_stats[Target(stats_[p])]

IdleFrame ==
    /\ caller = "idle" /\ cur = NoPipe /\ buffer = <<>> /\ threads = 0 /\ t = 0
    /\ offset = 0 /\ local_results = <<>> /\ workers = <<>> /\ joined = 0

\* A program with the pipelines ps, each just returned by from(source[p]) for
\* a source of srcs; the other pipeline values of Pipes are never touched.
InitWith(ps, srcs) ==
    /\ source \in [Pipes -> srcs \cup {<<>>}]
    /\ \A p \in Pipes \ ps : source[p] = <<>>
    /\ operation_ = [p \in Pipes |-> <<>>]
    /\ stats_ = [p \in Pipes |-> NULL]
    /\ exec_policy_ = [p \in Pipes |-> "Sequential"]
    /\ parallelism_ = [p \in Pipes |-> hardware_concurrency]
    /\ requested = [p \in Pipes |-> <<>>]
    /\ local_stats = <<>>
    /\ results = [p \in Pipes |-> <<>>]
    /\ runlog = [p \in Pipes |-> <<>>]
    /\ faults = [p \in Pipes |-> <<>>]
    /\ IdleFrame

Init == InitWith({"A"}, Sources(MaxLen))

\* ------------------------------------------------------------ the builder
\* A builder call is made on a pipeline value that no collect has consumed.
Buildable(p) == caller = "idle" /\ results[p] = <<>> /\ faults[p] = <<>>

\* with_stats(): the block is a function-local static thread_local, one per
\* instantiation Pipeline<In, Out, OpFunc>; OpFunc is the type of the chain
\* built so far, so the chain names the block.  A program attaches stats to
\* a pipeline at most once.
with_stats(p) ==
    /\ Buildable(p)
    /\ stats_[p] = NULL
    /\ LET key == operation_[p]
           old == IF key \in DOMAIN local_stats THEN local_stats[key] ELSE PipelineStats
       IN /\ local_stats' = (key :> reset_total_items(reset(old))) @@ local_stats
          /\ stats_' = [stats_ EXCEPT ![p] = Ptr(key)]
    /\ UNCHANGED <<source, operation_, exec_policy_, parallelism_, requested,
                   results, runlog, faults, frameVars>>

\* parallelism_ = (threads == 0 ? 1 : threads)
no_normalize(n) == n
normalize_threads(n) == IF n = 0 THEN 1 ELSE n

\* parallel(threads, policy)
parallel(p, n, policy) ==
    /\ Buildable(p)
    /\ parallelism_' = [parallelism_ EXCEPT ![p] = normalize_threads(n)]
    /\ exec_policy_' = [exec_policy_ EXCEPT ![p] = policy]
    /\ requested' = [requested EXCEPT ![p] = <<n>>]
    /\ UNCHANGED <<source, operation_, stats_, local_stats, results, runlog, faults, frameVars>>

\* filter(fn): the new pipeline carries stats_, exec_policy_, parallelism_ over
filter_default_settings(p, fn, maxStages) ==
    /\ Buildable(p)
    /\ Len(operation_[p]) < maxStages
    /\ operation_' = [operation_ EXCEPT ![p] = Append(@, [kind |-> "filter", fn |-> fn])]
    /\ stats_' = [stats_ EXCEPT ![p] = NULL]
    /\ exec_policy_' = [exec_policy_ EXCEPT ![p] = "Sequential"]
    /\ parallelism_' = [parallelism_ EXCEPT ![p] = hardware_concurrency]
    /\ UNCHANGED <<source, requested, local_stats, results, runlog, faults, frameVars>>
filter(p, fn, maxStages) ==
    /\ Buildable(p)
    /\ Len(operation_[p]) < maxStages
    /\ operation_' = [operation_ EXCEPT ![p] = Append(@, [kind |-> "filter", fn |-> fn])]
    /\ UNCHANGED <<source, stats_, exec_policy_, parallelism_, requested,
                   local_stats, results, runlog, faults, frameVars>>

\* transform(fn)
transform(p, fn, maxStages) ==
    /\ Buildable(p)
    /\ Len(operation_[p]) < maxStages
    /\ operation_' = [operation_ EXCEPT ![p] = Append(@, [kind |-> "transform", fn |-> fn])]
    /\ UNCHANGED <<source, stats_, exec_policy_, parallelism_, requested,
                   local_stats, results, runlog, faults, frameVars>>

\* ---------------------------------------------------------------- collect
is_parallel(policy) == policy # "Sequential"

\* std::ranges::sized_range<Range>: collect calls std::ranges::size(input)
\* outside any if constexpr, so it compiles for sized ranges only.
sized_range(input) == TRUE

\* the path collect() takes
path_ignores_parallelism(policy, parallelism, input) ==
    IF ~is_parallel(policy) \/ ~sized_range(input) THEN "sequential"
    ELSE IF Len(input) = 0 THEN "sequential"
    ELSE "parallel"
collect_path(policy, parallelism, input) ==
    IF ~is_parallel(policy) \/ ~sized_range(input) THEN "sequential"
    ELSE IF Len(input) = 0 \/ parallelism <= 1 THEN "sequential"
    ELSE "parallel"

\* what runlog keeps of a run; calls[k] is what the run invoked on input[k]
LogEntry(p, input, path, spawned, calls) ==
    [input |-> input, path |-> path, policy |-> exec_policy_[p],
     parallelism |-> parallelism_[p], stats |-> stats_[p],
     requested |-> requested[p], spawned |-> spawned, calls |-> calls]

\* what faults keeps of a collect call that an exception ended: outcome is
\* "propagated" (the exception reached the caller of collect) or
\* "terminated" (std::terminate was called); block is *stats_ at that moment
FaultEntry(p, input, path, outcome) ==
    [input |-> input, path |-> path, outcome |-> outcome,
     block |-> IF stats_[p] = NULL THEN PipelineStats ELSE local_stats[Target(stats_[p])]]

\* return ResultWithStats<Out>{...}: the caller receives a new object
return_shared_snapshot(rs, p, snap) ==
    [q \in DOMAIN rs |-> IF q = p THEN Append(rs[q], snap)
                         ELSE [i \in DOMAIN rs[q] |-> snap]]
return_snapshot(rs, p, snap) == [rs EXCEPT ![p] = Append(@, snap)]

\* the loop of collect_sequential from iterator it on; an exception leaving
\* operation_ leaves the loop and the function
RECURSIVE seq_loop(_, _, _, _)
seq_loop(chain, input, it, acc) ==
    IF it > Len(input) THEN acc
    ELSE LET r == op(chain, input[it])
             passed == IF r.ok THEN 1 ELSE 0
             calls == Append(acc.calls, op_calls(chain, input[it]))
         IN IF r.fault # "none" THEN [acc EXCEPT !.fault = r.fault, !.calls = calls]
            ELSE seq_loop(chain, input, it + 1,
                     [result |-> IF r.ok THEN Append(acc.result, r.out) ELSE acc.result,
                      processed_count |-> acc.processed_count + passed,
                      filtered_count |-> acc.filtered_count + (1 - passed),
                      fault |-> "none", calls |-> calls])

\* collect_sequential with stats_ = ptr, *stats_ = blk (read only when ptr is
\* not NULL): the block after the call, the returned snapshot, and how the
\* call ended (ret is returned only when fault is "none")
collect_sequential_per_item(chain, ptr, blk, input, cycles_elapsed) ==
    LET acc == seq_loop(chain, input, 1,
                        [result |-> <<>>, processed_count |-> 0, filtered_count |-> 0,
                         fault |-> "none", calls |-> <<>>])
        ns_elapsed == (cycles_elapsed * 10) \div 30
        upd == IF ptr = NULL THEN PipelineStats
               ELSE [blk EXCEPT
                       !.items_processed = @ + acc.processed_count,
                       !.items_filtered = @ + acc.filtered_count,
                       !.total_items = @ + acc.processed_count + acc.filtered_count,
                       !.total_duration_ns = @ + ns_elapsed]
    IN [stats |-> upd,
        fault |-> acc.fault,
        calls |-> acc.calls,
        ret |-> IF ptr # NULL
                THEN ResultWithStats(acc.result, upd.items_processed, upd.items_filtered,
                                     upd.errors, upd.total_items, upd.total_duration_ns)
                ELSE ResultWithStats(acc.result, Len(acc.result), 0, 0, Len(acc.result), 0)]
collect_sequential(chain, ptr, blk, input, cycles_elapsed) ==
    LET acc == seq_loop(chain, input, 1,
                        [result |-> <<>>, processed_count |-> 0, filtered_count |-> 0,
                         fault |-> "none", calls |-> <<>>])
        ns_elapsed == (cycles_elapsed * 10) \div 30
        upd == IF ptr = NULL THEN PipelineStats
               ELSE IF acc.fault # "none" THEN blk
               ELSE [blk EXCEPT
                       !.items_processed = @ + acc.processed_count,
                       !.items_filtered = @ + acc.filtered_count,
                       !.total_items = @ + acc.processed_count + acc.filtered_count,
                       !.total_duration_ns = @ + ns_elapsed]
    IN [stats |-> upd,
        fault |-> acc.fault,
        calls |-> acc.calls,
        ret |-> IF ptr # NULL
                THEN ResultWithStats(acc.result, upd.items_processed, upd.items_filtered,
                                     upd.errors, upd.total_items, upd.total_duration_ns)
                ELSE ResultWithStats(acc.result, Len(acc.result), 0, 0, Len(acc.result), 0)]

\* collect() on the sequential path; read_tsc() measures any duration.  There
\* is no try block: an exception from the chain ends the call.
CollectSequential(p, input) ==
    /\ \E e \in (IF stats_[p] = NULL THEN {0} ELSE Elapsed) :
         LET r == collect_sequential(operation_[p], stats_[p],
                                     IF stats_[p] = NULL THEN PipelineStats ELSE Deref(p),
                                     input, 3 * e)
         IN IF r.fault = "none"
            THEN /\ local_stats' = IF stats_[p] = NULL THEN local_stats
                                   ELSE [local_stats EXCEPT ![Target(stats_[p])] = r.stats]
                 /\ results' = return_snapshot(results, p, r.ret)
                 /\ runlog' = [runlog EXCEPT ![p] = Append(@, LogEntry(p, input, "sequential", 0, r.calls))]
                 /\ UNCHANGED <<faults, caller>>
            ELSE /\ local_stats' = IF stats_[p] = NULL THEN local_stats
                                   ELSE [local_stats EXCEPT ![Target(stats_[p])] = r.stats]
                 /\ faults' = [faults EXCEPT ![p] = Append(@,
                        [FaultEntry(p, input, "sequential",
                                    IF r.fault = "raised" THEN "propagated" ELSE "terminated")
                            EXCEPT !.block = r.stats])]
                 /\ caller' = IF r.fault = "raised" THEN caller ELSE "terminated"
                 /\ UNCHANGED <<results, runlog>>
    /\ UNCHANGED <<pipeVars, cur, buffer, threads, t, offset, local_results, workers, joined>>

\* collect() on the parallel path: collect_parallel up to the spawn loop;
\* buffer.assign(begin, end) copies the elements of the input
CollectParallelBegin_moves_input(p, input) ==
    LET total == Len(input)
    IN /\ caller' = "spawn"
       /\ cur' = p
       /\ buffer' = input
       /\ source' = [source EXCEPT ![p] = [k \in DOMAIN input |-> 0]]
       /\ threads' = Min(parallelism_[p], total)
       /\ t' = 0
       /\ offset' = 0
       /\ local_results' = [i \in 1..Min(parallelism_[p], total) |-> <<>>]
       /\ workers' = <<>>
       /\ joined' = 0
       /\ UNCHANGED <<operation_, stats_, exec_policy_, parallelism_, requested,
                      local_stats, results, runlog, faults>>
CollectParallelBegin(p, input) ==
    LET total == Len(input)
    IN /\ caller' = "spawn"
       /\ cur' = p
       /\ buffer' = input
       /\ threads' = Min(parallelism_[p], total)
       /\ t' = 0
       /\ offset' = 0
       /\ local_results' = [i \in 1..Min(parallelism_[p], total) |-> <<>>]
       /\ workers' = <<>>
       /\ joined' = 0
       /\ UNCHANGED <<pipeVars, local_stats, results, runlog, faults>>

\* collect(input) &&: nothing marks the pipeline consumed, so any call runs
collect(p, maxCollects) ==
    /\ caller = "idle"
    /\ Len(results[p]) + Len(faults[p]) < maxCollects
    /\ IF collect_path(exec_policy_[p], parallelism_[p], source[p]) = "sequential"
       THEN CollectSequential(p, source[p])
       ELSE CollectParallelBegin(p, source[p])


\* ------------------------------------------------------- collect_parallel
\* const std::size_t chunk_size = base_chunk + (t < remainder ? 1 : 0)
chunk_size_no_remainder(total, nthreads, i) == total \div nthreads
chunk_size_extra_last(total, nthreads, i) ==
    (total \div nthreads) + (IF i >= nthreads - (total % nthreads) THEN 1 ELSE 0)
chunk_size(total, nthreads, i) ==
    (total \div nthreads) + (IF i < total % nthreads THEN 1 ELSE 0)

\* one turn of the spawn loop: break on an empty chunk, else start the
\* worker of chunk t on [chunk_begin, chunk_end); adds counts the fetch_adds
\* the worker has made on the block, calls[k] is what it invoked on the k-th
\* element of its chunk
Spawn ==
    /\ caller = "spawn"
    /\ LET size == chunk_size(Len(buffer), threads, t)
       IN IF size = 0
          THEN /\ caller' = "join"
               /\ UNCHANGED <<t, offset, workers>>
          ELSE /\ workers' = Append(workers,
                                    [t |-> t, chunk_begin |-> offset,
                                     chunk_end |-> offset + size, p |-> offset,
                                     local_processed |-> 0, local_filtered |-> 0,
                                     adds |-> 0, calls |-> <<>>, pc |-> "loop"])
               /\ offset' = offset + size
               /\ t' = t + 1
               /\ caller' = IF t + 1 < threads THEN "spawn" ELSE "join"
    /\ UNCHANGED <<pipeVars, local_stats, results, runlog, faults,
                   cur, buffer, threads, local_results, joined>>

\* where a worker goes when its loop ends
after_loop_no_update(w) ==
    IF w.p + 1 # w.chunk_end THEN "loop" ELSE "done"
after_loop_one_element(w) ==
    IF stats_[cur] # NULL THEN "add_processed" ELSE "done"
after_loop(w) ==
    IF w.p + 1 # w.chunk_end THEN "loop"
    ELSE IF stats_[cur] # NULL THEN "add_processed" ELSE "done"

\* local_results[t], the buffer a worker appends to (1-based here)
slot_of_first(w) == 1
slot(w) == w.t + 1

\* a worker thread runs while the process does
Running_while_spawning(w) ==
    /\ caller = "spawn"
    /\ w \in DOMAIN workers
Running(w) ==
    /\ caller \in {"spawn", "join"}
    /\ w \in DOMAIN workers

\* one turn of a worker's loop: operation_(*p, out_val), then the local
\* buffer or the local filtered counter; buffer[0] is the model's buffer[1].
\* The thread function has no try block: an exception that leaves
\* operation_ leaves the thread function, which calls std::terminate.
WorkerStep(w) ==
    /\ Running(w)
    /\ workers[w].pc = "loop"
    /\ LET me == workers[w]
           r == op(operation_[cur], buffer[me.p + 1])
       IN IF r.fault = "none"
          THEN /\ local_results' =
                      IF r.ok THEN [local_results EXCEPT ![slot(me)] = Append(@, r.out)]
                      ELSE local_results
               /\ workers' = [workers EXCEPT ![w] =
                      [me EXCEPT !.p = @ + 1,
                                 !.local_processed = @ + (IF r.ok THEN 1 ELSE 0),
                                 !.local_filtered = @ + (IF r.ok THEN 0 ELSE 1),
                                 !.calls = Append(@, op_calls(operation_[cur],
                                                              buffer[me.p + 1])),
                                 !.pc = after_loop(me)]]
               /\ UNCHANGED <<faults, caller>>
          ELSE /\ faults' = [faults EXCEPT ![cur] = Append(@,
                      FaultEntry(cur, buffer, "parallel", "terminated"))]
               /\ caller' = "terminated"
               /\ UNCHANGED <<local_results, workers>>
    /\ UNCHANGED <<pipeVars, local_stats, results, runlog,
                   cur, buffer, threads, t, offset, joined>>

\* stats_->items_processed.fetch_add(local_processed)
WorkerAddProcessed(w) ==
    /\ Running(w)
    /\ workers[w].pc = "add_processed"
    /\ local_stats' = [local_stats EXCEPT
                          ![Target(stats_[cur])].items_processed = @ + workers[w].local_processed]
    /\ workers' = [workers EXCEPT ![w].pc = "add_filtered", ![w].adds = @ + 1]
    /\ UNCHANGED <<pipeVars, results, runlog, faults,
                   caller, cur, buffer, threads, t, offset, local_results, joined>>

\* stats_->items_filtered.fetch_add(local_filtered); the thread ends
WorkerAddFiltered(w) ==
    /\ Running(w)
    /\ workers[w].pc = "add_filtered"
    /\ local_stats' = [local_stats EXCEPT
                          ![Target(stats_[cur])].items_filtered = @ + workers[w].local_filtered]
    /\ workers' = [workers EXCEPT ![w].pc = "done", ![w].adds = @ + 1]
    /\ UNCHANGED <<pipeVars, results, runlog, faults,
                   caller, cur, buffer, threads, t, offset, local_results, joined>>

\* th.join() returns once the thread has ended
join_returns_early(w) == TRUE
join_returns_after_loop(w) == w.pc # "loop"
join_returns(w) == w.pc = "done"

\* one turn of the join loop
Join ==
    /\ caller = "join"
    /\ joined < Len(workers)
    /\ join_returns(workers[joined + 1])
    /\ joined' = joined + 1
    /\ UNCHANGED <<pipeVars, local_stats, results, runlog, faults,
                   caller, cur, buffer, threads, t, offset, local_results, workers>>

\* both branches of the merge insert the buffers in ascending index
RECURSIVE concat(_, _)
concat(bufs, n) == IF n = 0 THEN <<>> ELSE concat(bufs, n - 1) \o bufs[n]

\* what the workers 1..n invoked, in chunk order
RECURSIVE worker_calls(_, _)
worker_calls(ws, n) == IF n = 0 THEN <<>> ELSE worker_calls(ws, n - 1) \o ws[n].calls

merge_drops_last(policy, bufs) == concat(bufs, Len(bufs) - 1)
merge_unordered_last_first(policy, bufs) ==
    IF policy = "ParallelPreserveOrder" THEN concat(bufs, Len(bufs))
    ELSE bufs[Len(bufs)] \o concat(bufs, Len(bufs) - 1)
merge(policy, bufs) ==
    IF policy = "ParallelPreserveOrder" THEN concat(bufs, Len(bufs))
    ELSE concat(bufs, Len(bufs))

\* after the join loop: total_items and the duration, the merge, the
\* snapshot.  Without stats the snapshot is built as
\*   ResultWithStats<Out>{std::move(merged), merged.size(), 0, 0, total, 0}
\* where merged may already have been moved from when size() is read.
Finish ==
    /\ caller = "join"
    /\ joined = Len(workers)
    /\ LET total == Len(buffer)
           merged == merge(exec_policy_[cur], local_results)
           entry == LogEntry(cur, buffer, "parallel", Len(workers),
                             worker_calls(workers, Len(workers)))
       IN IF stats_[cur] # NULL
          THEN \E elapsed \in Elapsed :
                 LET blk == [Deref(cur) EXCEPT
                               !.total_items = @ + total,
                               !.total_duration_ns = @ + elapsed]
                 IN /\ local_stats' = [local_stats EXCEPT ![Target(stats_[cur])] = blk]
                    /\ results' = return_snapshot(results, cur,
                          ResultWithStats(merged, blk.items_processed, blk.items_filtered,
                                          blk.errors, blk.total_items,
                                          blk.total_duration_ns))
                    /\ runlog' = [runlog EXCEPT ![cur] = Append(@, entry)]
          ELSE \E size \in {Len(merged), 0} :
                    /\ results' = return_snapshot(results, cur,
                          ResultWithStats(merged, size, 0, 0, total, 0))
                    /\ runlog' = [runlog EXCEPT ![cur] = Append(@, entry)]
                    /\ UNCHANGED local_stats
    /\ caller' = "idle" /\ cur' = NoPipe /\ buffer' = <<>> /\ threads' = 0 /\ t' = 0
    /\ offset' = 0 /\ local_results' = <<>> /\ workers' = <<>> /\ joined' = 0
    /\ UNCHANGED <<pipeVars, faults>>

\* ---------------------------------------------------------- the programs
Policies == {"Sequential", "ParallelPreserveOrder", "ParallelUnordered"}

Frame ==
    \/ Spawn
    \/ \E w \in 1..MaxThreads : WorkerStep(w)
    \/ \E w \in 1..MaxThreads : WorkerAddProcessed(w)
    \/ \E w \in 1..MaxThreads : WorkerAddFiltered(w)
    \/ Join
    \/ Finish

\* one pipeline
Next ==
    \/ with_stats("A")
    \/ \E n \in 0..MaxThreads, policy \in Policies : parallel("A", n, policy)
    \/ \E fn \in Predicates : filter("A", fn, MaxStages)
    \/ \E fn \in Mappers : transform("A", fn, MaxStages)
    \/ collect("A", 1)
    \/ Frame

Spec == Init /\ [][Next]_vars

\* one pipeline whose value the program hands to collect again
NextReuse ==
    \/ with_stats("A")
    \/ \E n \in 0..MaxThreads, policy \in Policies : parallel("A", n, policy)
    \/ \E fn \in Predicates : filter("A", fn, MaxStages)
    \/ \E fn \in Mappers : transform("A", fn, MaxStages)
    \/ collect("A", MaxCollects)
    \/ Frame

SpecReuse == Init /\ [][NextReuse]_vars


\* two pipelines built and collected by one thread, in any order
InitTwo == InitWith(Pipes, SeqsUpTo(Values, MaxLenTwo))

NextTwo ==
    \/ \E p \in Pipes : with_stats(p)
    \/ \E p \in Pipes : parallel(p, MaxThreads, "ParallelPreserveOrder")
    \/ \E p \in Pipes, fn \in Predicates : filter(p, fn, MaxStagesTwo)
    \/ \E p \in Pipes, fn \in Mappers : transform(p, fn, MaxStagesTwo)
    \/ \E p \in Pipes : collect(p, 1)
    \/ Frame

SpecTwo == InitTwo /\ [][NextTwo]_vars

\* two pipelines of the same type (no stage, so one block serves both),
\* built and collected by one thread in any order
NextSnap ==
    \/ \E p \in Pipes : with_stats(p)
    \/ \E p \in Pipes : parallel(p, MaxThreads, "ParallelPreserveOrder")
    \/ \E p \in Pipes : collect(p, 1)
    \/ Frame

SpecSnap == InitTwo /\ [][NextSnap]_vars

\* one pipeline whose stages may raise: the stages are drawn from the raising
\* predicate and mapper, the noexcept predicate and x % 2 == 0
FaultPredicates == RaisingPredicates \cup NoexceptPredicates \cup {"even"}

NextFault ==
    \/ with_stats("A")
    \/ \E n \in 0..MaxThreads, policy \in Policies : parallel("A", n, policy)
    \/ \E fn \in FaultPredicates : filter("A", fn, MaxStages)
    \/ \E fn \in RaisingMappers : transform("A", fn, MaxStages)
    \/ collect("A", 1)
    \/ Frame

SpecFault == Init /\ [][NextFault]_vars

\* two pipelines built and collected strictly one after the other by one
\* thread, as the calls of run_benchmark are: the program turns to B once
\* the collect of A has returned
Turn(p) == IF p = "A" THEN results["A"] = <<>> ELSE results["A"] # <<>>

NextSerial ==
    \/ \E p \in Pipes : Turn(p) /\ with_stats(p)
    \/ \E p \in Pipes : Turn(p) /\ parallel(p, MaxThreads, "ParallelPreserveOrder")
    \/ \E p \in Pipes : Turn(p) /\ filter(p, "even", MaxStagesTwo)
    \/ \E p \in Pipes : Turn(p) /\ collect(p, 1)
    \/ Frame

SpecSerial == InitTwo /\ [][NextSerial]_vars

\* one pipeline with x % 2 == 0 as its only stage, under the scheduling the
\* threads get: the caller thread and every worker thread keep being
\* scheduled while they have a step to take
NextLive ==
    \/ with_stats("A")
    \/ \E n \in 0..MaxThreads, policy \in Policies : parallel("A", n, policy)
    \/ filter("A", "even", MaxStagesTwo)
    \/ collect("A", 1)
    \/ Frame

WorkerThread(w) == WorkerStep(w) \/ WorkerAddProcessed(w) \/ WorkerAddFiltered(w)
CallerThread == Spawn \/ Join \/ Finish

SpecLive ==
    /\ Init /\ [][NextLive]_vars
    /\ WF_vars(CallerThread)
    /\ \A w \in 1..MaxThreads : WF_vars(WorkerThread(w))

\* ================================================================ claims
\* the runs of pipeline p that have returned
Runs(p) == DOMAIN results[p]

\* the chain applied one stage at a time to the whole sequence: a filter
\* keeps the elements its predicate accepts, a transform maps every element
RECURSIVE StagewiseOutput(_, _)
StagewiseOutput(chain, S) ==
    IF chain = <<>> THEN S
    ELSE LET st == Head(chain)
         IN StagewiseOutput(Tail(chain),
                IF st.kind = "filter" THEN SelectSeq(S, LAMBDA v : pred(st.fn, v))
                ELSE [i \in 1..Len(S) |-> tfn(st.fn, S[i])])

\* the output of a Sequential collect of the chain on the input
SequentialData(chain, input) ==
    collect_sequential(chain, NULL, PipelineStats, input, 0).ret.data

Count(seq, v) == Cardinality({i \in DOMAIN seq : seq[i] = v})
Range(seq) == {seq[i] : i \in DOMAIN seq}
SameMultiset(a, b) ==
    /\ Len(a) = Len(b)
    /\ \A v \in Range(a) \cup Range(b) : Count(a, v) = Count(b, v)

\* C1: a collect on the sequential path returns exactly the source with the
\* stages applied in order, keeping the elements that passed, in input order.
C1_SequentialOutput ==
    \A p \in Pipes : \A i \in Runs(p) :
        runlog[p][i].path = "sequential" =>
            results[p][i].data = StagewiseOutput(operation_[p], runlog[p][i].input)

\* C1 witness: a Sequential collect of a filter and a transform returned,
\* with some elements dropped and some kept.
C1_Witness ==
    \E i \in Runs("A") :
        /\ runlog["A"][i].policy = "Sequential"
        /\ \E j, k \in DOMAIN operation_["A"] :
              operation_["A"][j].kind = "filter" /\ operation_["A"][k].kind = "transform"
        /\ Len(results["A"][i].data) > 0
        /\ Len(results["A"][i].data) < Len(runlog["A"][i].input)

\* C2: under ParallelPreserveOrder, for every thread count, collect returns
\* element for element what a Sequential collect of the same chain returns.
C2_PreserveOrderEqualsSequential ==
    \A p \in Pipes : \A i \in Runs(p) :
        runlog[p][i].policy = "ParallelPreserveOrder" =>
            results[p][i].data = SequentialData(operation_[p], runlog[p][i].input)

\* C2 witness: a ParallelPreserveOrder run over uneven chunks returned, two
\* workers, some elements dropped and two kept.
C2_Witness ==
    \E i \in Runs("A") :
        /\ runlog["A"][i].policy = "ParallelPreserveOrder"
        /\ runlog["A"][i].path = "parallel"
        /\ runlog["A"][i].spawned = 2
        /\ Len(runlog["A"][i].input) = 3
        /\ Len(results["A"][i].data) = 2
        /\ results["A"][i].data[1] # results["A"][i].data[2]

\* C3: under ParallelUnordered the output is, as a multiset, the output of a
\* Sequential collect of the same chain on the same source.
C3_UnorderedSameMultiset ==
    \A p \in Pipes : \A i \in Runs(p) :
        runlog[p][i].policy = "ParallelUnordered" =>
            SameMultiset(results[p][i].data,
                         SequentialData(operation_[p], runlog[p][i].input))

\* C3 witness: a ParallelUnordered run on the parallel path returned a
\* non-empty output from which an element was filtered.
C3_Witness ==
    \E i \in Runs("A") :
        /\ runlog["A"][i].policy = "ParallelUnordered"
        /\ runlog["A"][i].path = "parallel"
        /\ operation_["A"] # <<>>
        /\ Len(results["A"][i].data) > 0
        /\ Len(results["A"][i].data) < Len(runlog["A"][i].input)

\* C4: every returned snapshot has total_items = items_processed + items_filtered.
C4_TotalIsProcessedPlusFiltered ==
    \A p \in Pipes : \A i \in Runs(p) :
        results[p][i].total_items =
            results[p][i].items_processed + results[p][i].items_filtered

\* C5: with stats attached, the snapshot has items_processed = length of the
\* output and items_filtered = source length - output length.
C5_StatsCountOwnRun ==
    \A p \in Pipes : \A i \in Runs(p) :
        runlog[p][i].stats # NULL =>
            /\ results[p][i].items_processed = Len(results[p][i].data)
            /\ results[p][i].items_filtered =
                   Len(runlog[p][i].input) - Len(results[p][i].data)

\* C6: for an empty source the output is empty and all five counters are zero.
C6_EmptySourceAllZero ==
    \A p \in Pipes : \A i \in Runs(p) :
        runlog[p][i].input = <<>> =>
            results[p][i] = ResultWithStats(<<>>, 0, 0, 0, 0, 0)

\* C7: after parallel(0, policy) the pipeline is as after parallel(1, policy):
\* the recorded parallelism is 1, and every collect runs the sequential path
\* with parallelism 1 and returns the output and the counters (the measured
\* duration apart) of a sequential pass with parallelism 1.
C7_ZeroThreadsIsOne ==
    \A p \in Pipes :
        requested[p] \in {<<0>>, <<1>>} =>
            /\ parallelism_[p] = 1
            /\ \A i \in Runs(p) :
                  LET r == results[p][i]
                      input == runlog[p][i].input
                  IN /\ runlog[p][i].parallelism = 1
                     /\ runlog[p][i].path = "sequential"
                     /\ [r EXCEPT !.total_duration = 0] =
                            collect_sequential(operation_[p], runlog[p][i].stats,
                                               PipelineStats, input, 0).ret

\* C7 witness: parallel(0, a parallel policy), then a collect of a non-empty
\* source returned.
C7_Witness ==
    /\ requested["A"] = <<0>>
    /\ exec_policy_["A"] # "Sequential"
    /\ source["A"] # <<>>
    /\ results["A"] # <<>>

\* the entry conditions of the parallel path
EntryConditions(policy, parallelism, input) ==
    policy # "Sequential" /\ parallelism > 1 /\ Len(input) > 0

\* C8: collect runs the parallel path only when the policy is not Sequential,
\* parallelism > 1 and the source is not empty; otherwise it runs the
\* sequential path and returns a result.
C8_ParallelEntry ==
    /\ \A p \in Pipes : \A i \in Runs(p) :
          /\ runlog[p][i].path = "parallel" <=>
                 EntryConditions(runlog[p][i].policy, runlog[p][i].parallelism,
                                 runlog[p][i].input)
          /\ runlog[p][i].path = "sequential" =>
                 results[p][i].data = SequentialData(operation_[p], runlog[p][i].input)
    /\ caller # "idle" =>
          EntryConditions(exec_policy_[cur], parallelism_[cur], source[cur])

\* C8 witness: a parallel policy with parallelism 1 on a non-empty source
\* fell back to the sequential path and returned.
C8_Witness ==
    \E i \in Runs("A") :
        /\ runlog["A"][i].policy # "Sequential"
        /\ runlog["A"][i].parallelism = 1
        /\ runlog["A"][i].input # <<>>
        /\ runlog["A"][i].path = "sequential"

\* C9: a second collect on the same chain value is rejected: the chain is
\* not run again and no second result is produced.
C9_SecondCollectRejected ==
    \A p \in Pipes : Len(results[p]) <= 1

\* C10: the counters a pipeline's collect reports count that pipeline's own
\* source elements, whatever the other pipeline did in between.
C10_DedicatedBlock ==
    \A p \in Pipes : \A i \in Runs(p) :
        (i = 1 /\ runlog[p][i].stats # NULL) =>
            /\ results[p][i].total_items = Len(source[p])
            /\ results[p][i].items_processed + results[p][i].items_filtered
                   = Len(source[p])

\* C11: a returned snapshot is a value: no later step (a with_stats() that
\* resets the block it was read from, a batch update, a collect of either
\* pipeline) changes any field of a snapshot that was already returned.
C11_SnapshotIsValueCopy ==
    [][\A p \in Pipes : \A i \in DOMAIN results[p] :
          i \in DOMAIN results'[p] /\ results'[p][i] = results[p][i]]_vars

\* C11 witness: a snapshot was returned with stats attached, and the block it
\* was read from has been reset or updated since.
C11_Witness ==
    \E p \in Pipes : \E i \in Runs(p) :
        /\ runlog[p][i].stats # NULL
        /\ results[p][i].total_items > 0
        /\ local_stats[Target(runlog[p][i].stats)].total_items # results[p][i].total_items

\* the chain before its last stage, and the last stage
PriorChain(chain) == SubSeq(chain, 1, Len(chain) - 1)
LastStage(chain) == chain[Len(chain)]

\* C12: in a run of a chain that ends with filter(pred), on every element the
\* prior chain rejects pred is not invoked and the element is dropped; on
\* every other element pred is invoked once, last, on the prior chain's value,
\* the element passes iff pred is true of it, and the value is unchanged.
C12_FilterShortCircuit ==
    \A p \in Pipes : \A i \in Runs(p) :
        LET chain == operation_[p]
            input == runlog[p][i].input
        IN (chain # <<>> /\ LastStage(chain).kind = "filter") =>
              \A k \in DOMAIN input :
                 LET prior == op(PriorChain(chain), input[k])
                     before == op_calls(PriorChain(chain), input[k])
                     made == runlog[p][i].calls[k]
                     new == op(chain, input[k])
                 IN IF ~prior.ok
                    THEN Len(made) = Len(before) /\ made = before /\ ~new.ok
                    ELSE /\ Len(made) = Len(before) + 1
                         /\ SubSeq(made, 1, Len(before)) = before
                         /\ made[Len(made)] = [fn |-> LastStage(chain).fn, arg |-> prior.out]
                         /\ new.ok = pred(LastStage(chain).fn, prior.out)
                         /\ new.out = prior.out

\* C12 witness: a run of a chain of two filters returned; the first filter
\* rejected one element, and another element passed both.
C12_Witness ==
    \E i \in Runs("A") :
        LET chain == operation_["A"]
            input == runlog["A"][i].input
        IN /\ Len(chain) = 2
           /\ chain[1].kind = "filter" /\ chain[2].kind = "filter"
           /\ \E k \in DOMAIN input : ~op(PriorChain(chain), input[k]).ok
           /\ \E k \in DOMAIN input : op(chain, input[k]).ok

\* C13: in a run of a chain that ends with transform(mapper), on every
\* element the prior chain rejects the mapper is not invoked and the element
\* is dropped; on every other element the mapper is invoked once, last, on the
\* prior chain's value, and the chain yields the mapper's result.
C13_TransformShortCircuit ==
    \A p \in Pipes : \A i \in Runs(p) :
        LET chain == operation_[p]
            input == runlog[p][i].input
        IN (chain # <<>> /\ LastStage(chain).kind = "transform") =>
              \A k \in DOMAIN input :
                 LET prior == op(PriorChain(chain), input[k])
                     before == op_calls(PriorChain(chain), input[k])
                     made == runlog[p][i].calls[k]
                     new == op(chain, input[k])
                 IN IF ~prior.ok
                    THEN Len(made) = Len(before) /\ made = before /\ ~new.ok
                    ELSE /\ Len(made) = Len(before) + 1
                         /\ SubSeq(made, 1, Len(before)) = before
                         /\ made[Len(made)] = [fn |-> LastStage(chain).fn, arg |-> prior.out]
                         /\ new.ok
                         /\ new.out = tfn(LastStage(chain).fn, prior.out)

\* C13 witness: a run of a filter followed by a transform returned; the
\* filter rejected one element and the mapper was applied to another.
C13_Witness ==
    \E i \in Runs("A") :
        LET chain == operation_["A"]
            input == runlog["A"][i].input
        IN /\ Len(chain) = 2
           /\ chain[1].kind = "filter" /\ chain[2].kind = "transform"
           /\ \E k \in DOMAIN input : ~op(PriorChain(chain), input[k]).ok
           /\ \E k \in DOMAIN input : op(chain, input[k]).ok
           /\ results["A"][i].data # <<>>

\* a stage raised during the run that made these invocations
Raised(calls) ==
    \E k \in DOMAIN calls : \E c \in DOMAIN calls[k] :
        throws(calls[k][c].fn, calls[k][c].arg)

\* C14: a fault a predicate or mapper raises during a sequential collect
\* reaches the caller of collect: the call ends with the exception
\* propagated (never with the process terminated), it returns no snapshot,
\* and no sequential run in which a stage raised returns one.
C14_SequentialFaultPropagates ==
    \A p \in Pipes :
        /\ \A j \in DOMAIN faults[p] :
              faults[p][j].path = "sequential" =>
                  faults[p][j].outcome = "propagated" /\ results[p] = <<>>
        /\ \A i \in Runs(p) :
              runlog[p][i].path = "sequential" => ~Raised(runlog[p][i].calls)

\* C15: a fault raised inside a worker of a parallel collect is re-raised to
\* the caller of collect after the join: the call ends with the exception
\* propagated, never with the process terminated while workers run, and no
\* parallel run in which a stage raised returns a snapshot.
C15_WorkerFaultReraised ==
    \A p \in Pipes :
        /\ \A j \in DOMAIN faults[p] :
              faults[p][j].path = "parallel" =>
                  faults[p][j].outcome = "propagated" /\ caller # "terminated"
        /\ \A i \in Runs(p) :
              runlog[p][i].path = "parallel" => ~Raised(runlog[p][i].calls)

\* a parallel collect is between its entry and its return
InParallel == caller \in {"spawn", "join"}

\* C16: on the parallel path, with N the source length and T the smaller of
\* the parallelism and N, the loop runs over T chunks; chunk i (from 0) has
\* N / T elements and one more iff i < N mod T; each chunk begins where the
\* one before it ends, the first at 0, and the last ends at N.
C16_ChunkPartition ==
    InParallel =>
        LET N == Len(buffer)
            T == IF parallelism_[cur] < N THEN parallelism_[cur] ELSE N
        IN /\ N >= 1 /\ parallelism_[cur] >= 2
           /\ threads = T
           /\ \A w \in DOMAIN workers :
                 /\ workers[w].t = w - 1
                 /\ workers[w].chunk_end - workers[w].chunk_begin =
                        (N \div T) + (IF w - 1 < N % T THEN 1 ELSE 0)
                 /\ workers[w].chunk_begin =
                        IF w = 1 THEN 0 ELSE workers[w - 1].chunk_end
           /\ caller = "join" =>
                 Len(workers) = T /\ workers[T].chunk_end = N

\* C16 witness: three elements split over two workers, the first chunk with
\* the extra element, all chunks handed out.
C16_Witness ==
    /\ caller = "join"
    /\ Len(buffer) = 3
    /\ Len(workers) = 2
    /\ workers[1].chunk_end - workers[1].chunk_begin = 2
    /\ workers[2].chunk_end - workers[2].chunk_begin = 1

\* the block the running parallel collect updates
Block == local_stats[Target(stats_[cur])]

\* C17 as stated: a worker's counts are added to the block only after the
\* join loop is over, with one update per worker.
C17_UpdateAfterJoin ==
    InParallel =>
        \A w \in DOMAIN workers :
            /\ workers[w].adds <= 1
            /\ workers[w].adds > 0 => (caller = "join" /\ joined = Len(workers))

\* what holds of the workers' updates in every state of a parallel collect
WorkerUpdates ==
    InParallel =>
        \A w \in DOMAIN workers :
            /\ workers[w].adds <= 2
            /\ workers[w].adds > 0 =>
                   (workers[w].p = workers[w].chunk_end /\ stats_[cur] # NULL)
            /\ workers[w].pc = "done" =>
                   workers[w].adds = (IF stats_[cur] # NULL THEN 2 ELSE 0)
            /\ w <= joined => workers[w].pc = "done"

\* C17, amended: with stats attached each worker adds its own counts to the
\* block itself, after its loop has ended and before it is joined: one
\* fetch_add of local_processed to items_processed, then one of
\* local_filtered to items_filtered, and no other step of the run changes
\* these two counters; every worker has made both when it is joined.
C17_BatchUpdateInWorker ==
    [][(InParallel /\ InParallel') =>
          /\ WorkerUpdates'
          /\ \A w \in DOMAIN workers :
                workers'[w].adds # workers[w].adds =>
                    /\ workers[w].p = workers[w].chunk_end
                    /\ workers'[w].adds = workers[w].adds + 1
                    /\ w > joined
                    /\ IF workers[w].adds = 0
                       THEN Block' = [Block EXCEPT
                                !.items_processed = @ + workers[w].local_processed]
                       ELSE Block' = [Block EXCEPT
                                !.items_filtered = @ + workers[w].local_filtered]
          /\ (stats_[cur] # NULL /\ Block' # Block) =>
                \E w \in DOMAIN workers : workers'[w].adds # workers[w].adds]_vars

\* C17 witness: with stats attached the first worker has made both its
\* updates and ended while the second is still in its loop and none is joined.
C17_Witness ==
    /\ caller = "join"
    /\ stats_[cur] # NULL
    /\ joined = 0
    /\ Len(workers) = 2
    /\ workers[1].adds = 2 /\ workers[1].pc = "done"
    /\ workers[1].local_processed + workers[1].local_filtered = 2
    /\ workers[2].pc = "loop"

\* the local counts of the workers 1..n, added up
RECURSIVE SumProcessed(_, _)
SumProcessed(ws, n) == IF n = 0 THEN 0 ELSE SumProcessed(ws, n - 1) + ws[n].local_processed
RECURSIVE SumFiltered(_, _)
SumFiltered(ws, n) == IF n = 0 THEN 0 ELSE SumFiltered(ws, n - 1) + ws[n].local_filtered

\* C18: the step in which a parallel collect merges, reads the counters and
\* returns is taken only when every spawned worker has been joined and has
\* ended with its whole chunk done; the snapshot it returns holds every
\* worker's whole output and, with stats attached, every worker's counts.
C18_JoinBarrier ==
    [][(InParallel /\ caller' = "idle") =>
          /\ joined = Len(workers)
          /\ \A w \in DOMAIN workers :
                workers[w].pc = "done" /\ workers[w].p = workers[w].chunk_end
          /\ LET snap == results'[cur][Len(results'[cur])]
                 n == Len(workers)
             IN /\ Len(results'[cur]) = Len(results[cur]) + 1
                /\ Len(snap.data) = SumProcessed(workers, n)
                /\ SumProcessed(workers, n) + SumFiltered(workers, n) = Len(buffer)
                /\ stats_[cur] # NULL =>
                       /\ snap.items_processed = SumProcessed(workers, n)
                       /\ snap.items_filtered = SumFiltered(workers, n)]_vars

\* C18 witness: a parallel collect with stats attached and two workers has
\* returned a snapshot that counts elements of both kinds.
C18_Witness ==
    \E i \in Runs("A") :
        /\ runlog["A"][i].path = "parallel"
        /\ runlog["A"][i].spawned = 2
        /\ runlog["A"][i].stats # NULL
        /\ results["A"][i].items_processed > 0
        /\ results["A"][i].items_filtered > 0

\* what holds of the workers' chunks and buffers in every state of a
\* parallel collect: worker w owns buffer w and the chunk it was handed, the
\* chunks do not overlap, and buffer w holds as many elements as worker w
\* has let pass of the part of its chunk it has done
IsolatedWorkers ==
    InParallel =>
        /\ \A w \in DOMAIN workers :
              /\ workers[w].t = w - 1
              /\ w <= Len(local_results)
              /\ workers[w].chunk_begin <= workers[w].p
              /\ workers[w].p <= workers[w].chunk_end
              /\ Len(local_results[w]) = workers[w].local_processed
              /\ workers[w].local_processed + workers[w].local_filtered =
                     workers[w].p - workers[w].chunk_begin
              /\ \A v \in DOMAIN workers :
                    v # w => \/ workers[v].chunk_end <= workers[w].chunk_begin
                             \/ workers[w].chunk_end <= workers[v].chunk_begin
        /\ \A k \in DOMAIN local_results : k > Len(workers) => local_results[k] = <<>>

\* C19: in every step of a parallel collect the input copy is not written;
\* a buffer that changes is the own buffer of the one worker that moved, and
\* it gains the output of the element that worker read in its own chunk;
\* the counters of a worker change only in a step of that worker.
C19_WorkerIsolation ==
    [][(InParallel /\ InParallel') =>
          /\ buffer' = buffer
          /\ operation_' = operation_
          /\ IsolatedWorkers'
          /\ \A k \in DOMAIN local_results :
                local_results'[k] # local_results[k] =>
                    /\ k \in DOMAIN workers
                    /\ workers'[k].p = workers[k].p + 1
                    /\ workers[k].chunk_begin <= workers[k].p
                    /\ workers[k].p < workers[k].chunk_end
                    /\ local_results'[k] =
                           Append(local_results[k],
                                  op(operation_[cur], buffer[workers[k].p + 1]).out)
                    /\ \A j \in DOMAIN local_results :
                          j # k => local_results'[j] = local_results[j]
          /\ \A w \in DOMAIN workers :
                (workers'[w].local_processed # workers[w].local_processed
                   \/ workers'[w].local_filtered # workers[w].local_filtered) =>
                    /\ workers'[w].p = workers[w].p + 1
                    /\ \A v \in DOMAIN workers : v # w => workers'[v] = workers[v]]_vars

\* C19 witness: two workers run at once: the first is inside its chunk with
\* output in its buffer while the second has output in its own.
C19_Witness ==
    /\ caller = "join"
    /\ Len(workers) = 2
    /\ workers[1].pc = "loop"
    /\ workers[1].p > workers[1].chunk_begin
    /\ local_results[1] # <<>>
    /\ local_results[2] # <<>>

\* the number of workers a parallel collect of n elements is to spawn
WorkerCount(parallelism, n) == IF parallelism < n THEN parallelism ELSE n

\* what holds of the spawn loop in every state of a parallel collect: while
\* it runs, one worker was spawned per chunk so far and elements are left for
\* the next chunk (the exit on an empty chunk is not taken); after it, there
\* are min(parallelism, N) workers
SpawnedPerChunk ==
    /\ caller = "spawn" =>
          /\ Len(workers) = t
          /\ t < WorkerCount(parallelism_[cur], Len(buffer))
          /\ offset < Len(buffer)
    /\ caller = "join" =>
          Len(workers) = WorkerCount(parallelism_[cur], Len(buffer))
    /\ caller = "idle" => workers = <<>>
    /\ \A p \in Pipes : \A i \in Runs(p) :
          runlog[p][i].path = "parallel" =>
              runlog[p][i].spawned =
                  WorkerCount(runlog[p][i].parallelism, Len(runlog[p][i].input))

\* C20: a parallel collect spawns one worker per chunk, min(parallelism, N)
\* in all, never leaves the spawn loop early, and returns only when every
\* spawned worker has been joined and has ended; none is left when it returns.
C20_SpawnedAndJoined ==
    [][/\ SpawnedPerChunk'
       /\ (InParallel /\ caller' = "idle") =>
              /\ joined = Len(workers)
              /\ Len(workers) = WorkerCount(parallelism_[cur], Len(buffer))
              /\ \A w \in DOMAIN workers : workers[w].pc = "done"
              /\ workers' = <<>>]_vars

\* C20 witness: a parallel collect of one element with parallelism 2
\* returned after spawning one worker.
C20_Witness ==
    \E i \in Runs("A") :
        /\ runlog["A"][i].path = "parallel"
        /\ runlog["A"][i].parallelism = 2
        /\ Len(runlog["A"][i].input) = 1
        /\ runlog["A"][i].spawned = 1

\* the settings a pipeline value records besides its chain
Settings(p) == <<stats_[p], exec_policy_[p], parallelism_[p]>>

\* C21: a parallel() or with_stats() step leaves the chain as it was, and a
\* filter() or transform() step appends one stage and leaves the recorded
\* stats attachment, policy and parallelism as they were; so whatever the
\* order of the builder calls, every collect returns the output of the
\* chain's stages applied to the source in the order they were added.
C21_SettingsDoNotChangeChain ==
    [][\A p \in Pipes :
          /\ Settings(p)' # Settings(p) => operation_'[p] = operation_[p]
          /\ operation_'[p] # operation_[p] =>
                /\ Settings(p)' = Settings(p)
                /\ Len(operation_'[p]) = Len(operation_[p]) + 1
                /\ SubSeq(operation_'[p], 1, Len(operation_[p])) = operation_[p]
          /\ \A i \in DOMAIN results'[p] :
                results'[p][i].data =
                    StagewiseOutput(operation_'[p], runlog'[p][i].input)]_vars

\* C21 witness: with_stats() was called before a stage was added and the
\* stage was added after it (the block is the one of the shorter chain),
\* parallel() took the pipeline to the parallel path, and the collect
\* returned a filtered, non-empty output counted in that block.
C21_Witness ==
    \E i \in Runs("A") :
        /\ stats_["A"] # NULL
        /\ Len(Target(stats_["A"])) < Len(operation_["A"])
        /\ runlog["A"][i].stats = stats_["A"]
        /\ runlog["A"][i].path = "parallel"
        /\ results["A"][i].data # <<>>
        /\ results["A"][i].items_filtered > 0

\* C22: the chain from() returns yields every element as it is, so a collect
\* of a pipeline with no stage returns the source: the same length and at
\* every position the same element, on the sequential and the parallel path.
C22_FromIsIdentity ==
    \A p \in Pipes : \A i \in Runs(p) :
        operation_[p] = <<>> =>
            LET input == runlog[p][i].input
                data == results[p][i].data
            IN /\ Len(data) = Len(input)
               /\ \A k \in DOMAIN input :
                     /\ identity(input[k]).ok
                     /\ identity(input[k]).out = input[k]
                     /\ data[k] = input[k]

\* C22 witness: a pipeline with no stage collected a source of three
\* different elements with two workers and returned it.
C22_Witness ==
    \E i \in Runs("A") :
        /\ operation_["A"] = <<>>
        /\ runlog["A"][i].path = "parallel"
        /\ runlog["A"][i].spawned = 2
        /\ runlog["A"][i].input = <<4, 1, 2>>
        /\ results["A"][i].data = <<4, 1, 2>>

\* C23: the stages act on each element in the order they were added: the
\* j-th function a run invokes on an element is the function of the j-th
\* stage, handed the value the stages before it produced, and the run returns
\* the stages applied to the source in that order.
C23_StagesInOrderAdded ==
    \A p \in Pipes : \A i \in Runs(p) :
        LET chain == operation_[p]
            input == runlog[p][i].input
        IN /\ results[p][i].data = StagewiseOutput(chain, input)
           /\ \A k \in DOMAIN input :
                 LET made == runlog[p][i].calls[k]
                 IN /\ Len(made) <= Len(chain)
                    /\ \A j \in DOMAIN made :
                          /\ made[j].fn = chain[j].fn
                          /\ made[j].arg = op(SubSeq(chain, 1, j - 1), input[k]).out

\* C23 witness: transform(x * 2) then filter(x > 3) returned: the predicate
\* was handed 4 for the element 2 and let it pass, and the same two stages in
\* the other order give another output for this source.
C23_Witness ==
    \E i \in Runs("A") :
        LET chain == operation_["A"]
            input == runlog["A"][i].input
        IN /\ chain = <<[kind |-> "transform", fn |-> "dbl"],
                        [kind |-> "filter", fn |-> "gt3"]>>
           /\ \E k \in DOMAIN input :
                 /\ input[k] = 2
                 /\ runlog["A"][i].calls[k] =
                        <<[fn |-> "dbl", arg |-> 2], [fn |-> "gt3", arg |-> 4]>>
           /\ 4 \in Range(results["A"][i].data)
           /\ StagewiseOutput(<<chain[2], chain[1]>>, input) # results["A"][i].data

\* C24: a completed collect has invoked the chain function once per source
\* element, the k-th invocation on the k-th element, on either path; while a
\* parallel collect runs each worker has invoked it once per element of its
\* chunk it has passed, and no element lies in two chunks.
C24_OncePerElement ==
    /\ \A p \in Pipes : \A i \in Runs(p) :
          LET input == runlog[p][i].input
              calls == runlog[p][i].calls
          IN /\ Len(calls) = Len(input)
             /\ \A k \in DOMAIN input : calls[k] = op_calls(operation_[p], input[k])
    /\ InParallel =>
          \A w \in DOMAIN workers :
             /\ Len(workers[w].calls) = workers[w].p - workers[w].chunk_begin
             /\ workers[w].p <= workers[w].chunk_end
             /\ workers[w].pc # "loop" => workers[w].p = workers[w].chunk_end
             /\ \A v \in DOMAIN workers :
                   v < w => workers[v].chunk_end <= workers[w].chunk_begin

\* C24 witness: a parallel collect of three different elements by two
\* workers returned with three invocations of a chain of two stages, the
\* last element's by the second worker.
C24_Witness ==
    \E i \in Runs("A") :
        /\ runlog["A"][i].path = "parallel"
        /\ runlog["A"][i].spawned = 2
        /\ runlog["A"][i].input = <<1, 2, 4>>
        /\ Len(operation_["A"]) = 2
        /\ Len(runlog["A"][i].calls) = 3
        /\ Len(runlog["A"][i].calls[3]) = 2

\* C25: with stages that return for every element, under fair scheduling of
\* the caller and the workers, a collect that has entered the parallel path
\* always comes to return a snapshot: every worker ends its chunk, the join
\* loop ends and the call returns (a collect on the sequential path is one
\* bounded loop over the source).
C25_CollectReturns ==
    InParallel ~> (caller = "idle" /\ results["A"] # <<>> /\ faults["A"] = <<>>)

\* C25 witness: a parallel collect with stats attached over three elements
\* returned after its two workers had run their chunks.
C25_Witness ==
    \E i \in Runs("A") :
        /\ caller = "idle"
        /\ runlog["A"][i].path = "parallel"
        /\ runlog["A"][i].spawned = 2
        /\ Len(runlog["A"][i].input) = 3
        /\ runlog["A"][i].stats # NULL
        /\ results["A"][i].total_items = 3

\* C26: no step changes the source: it holds the same elements in the same
\* order before and after every collect on either path; a parallel collect
\* works on a copy of it, which its workers only read, and every returned run
\* was a run over the source as it still is.
C26_SourceUnchanged ==
    [][/\ source' = source
       /\ (InParallel /\ InParallel') => buffer' = buffer
       /\ InParallel' => buffer' = source'[cur']
       /\ \A p \in Pipes : \A i \in DOMAIN runlog'[p] :
             runlog'[p][i].input = source'[p]]_vars

\* C26 witness: a parallel collect of <<1, 2, 4>> through x % 2 == 0 returned
\* <<2, 4>> and the source is still <<1, 2, 4>>.
C26_Witness ==
    \E i \in Runs("A") :
        /\ runlog["A"][i].path = "parallel"
        /\ source["A"] = <<1, 2, 4>>
        /\ runlog["A"][i].input = <<1, 2, 4>>
        /\ results["A"][i].data = <<2, 4>>

\* C27: a ParallelUnordered collect returns, position by position, the
\* output of a Sequential collect of the same chain on the same source, for
\* every chain, source and thread count.
C27_UnorderedEqualsSequential ==
    \A p \in Pipes : \A i \in Runs(p) :
        runlog[p][i].policy = "ParallelUnordered" =>
            LET seq == SequentialData(operation_[p], runlog[p][i].input)
                data == results[p][i].data
            IN /\ Len(data) = Len(seq)
               /\ \A k \in DOMAIN seq : data[k] = seq[k]

\* C27 witness: a ParallelUnordered collect of <<4, 1, 2>> through x * 2 by
\* two workers returned <<8, 2, 4>>.
C27_Witness ==
    \E i \in Runs("A") :
        /\ runlog["A"][i].policy = "ParallelUnordered"
        /\ runlog["A"][i].path = "parallel"
        /\ runlog["A"][i].spawned = 2
        /\ runlog["A"][i].input = <<4, 1, 2>>
        /\ operation_["A"] = <<[kind |-> "transform", fn |-> "dbl"]>>
        /\ results["A"][i].data = <<8, 2, 4>>

\* what the workers 1..n have added to the block so far
RECURSIVE AddedProcessed(_, _)
AddedProcessed(ws, n) ==
    IF n = 0 THEN 0
    ELSE AddedProcessed(ws, n - 1) + (IF ws[n].adds >= 1 THEN ws[n].local_processed ELSE 0)
RECURSIVE AddedFiltered(_, _)
AddedFiltered(ws, n) ==
    IF n = 0 THEN 0
    ELSE AddedFiltered(ws, n - 1) + (IF ws[n].adds = 2 THEN ws[n].local_filtered ELSE 0)

\* the block of a running parallel collect holds what the workers that have
\* made their adds counted, in whatever order they made them
BlockIsSumOfAdds ==
    (InParallel /\ stats_[cur] # NULL) =>
        /\ Block.items_processed = AddedProcessed(workers, Len(workers))
        /\ Block.items_filtered = AddedFiltered(workers, Len(workers))

\* C28: whatever the order in which the workers take their steps, a parallel
\* collect returns the snapshot the chain, the source and the settings fix:
\* the output of a Sequential collect, total_items the source length N and,
\* with stats attached, items_processed the output length and
\* items_filtered N minus it (without stats items_filtered is 0 and
\* items_processed the size read from the merged vector, the output length
\* or 0); while it runs the block holds the counts of the workers that have
\* added theirs, in whatever order they did.
C28_SchedulingIndependent ==
    [][/\ BlockIsSumOfAdds'
       /\ (InParallel /\ caller' = "idle") =>
             LET snap == results'[cur][Len(results'[cur])]
                 seq == SequentialData(operation_[cur], source[cur])
                 N == Len(source[cur])
             IN /\ snap.data = seq
                /\ snap.total_items = N
                /\ IF stats_[cur] # NULL
                   THEN /\ snap.items_processed = Len(seq)
                        /\ snap.items_filtered = N - Len(seq)
                   ELSE /\ snap.items_processed \in {Len(seq), 0}
                        /\ snap.items_filtered = 0]_vars

\* C28 witness: the second worker has run its chunk and added its counts to
\* the block before the first worker has taken a step.
C28_Witness ==
    /\ caller = "join"
    /\ stats_[cur] # NULL
    /\ Len(workers) = 2
    /\ workers[1].p = workers[1].chunk_begin
    /\ workers[1].pc = "loop"
    /\ workers[2].pc = "done"
    /\ workers[2].adds = 2
    /\ Block.items_processed + Block.items_filtered > 0

\* C29: the step in which a stage raises during a sequential collect with
\* stats attached changes no block: items_processed, items_filtered,
\* total_items and total_duration_ns are what they were before the call, the
\* counts of the elements handled before the fault are not added, and no
\* snapshot is returned.
C29_FaultLeavesBlock ==
    [][\A p \in Pipes :
          (Len(faults'[p]) > Len(faults[p])
             /\ faults'[p][Len(faults'[p])].path = "sequential"
             /\ stats_[p] # NULL) =>
                /\ local_stats' = local_stats
                /\ faults'[p][Len(faults'[p])].block = Deref(p)
                /\ results' = results]_vars

\* C29 witness: with stats attached a stage raised on the element 2 after
\* the sequential loop had handled an element before it; the exception
\* reached the caller and the block still holds zeros.
C29_Witness ==
    \E j \in DOMAIN faults["A"] :
        /\ faults["A"][j].path = "sequential"
        /\ faults["A"][j].outcome = "propagated"
        /\ stats_["A"] # NULL
        /\ faults["A"][j].input[1] # 2
        /\ Deref("A") = PipelineStats
        /\ faults["A"][j].block = PipelineStats

\* C30: with_stats() leaves every counter of the block it attaches at zero;
\* so when the pipelines are built and collected one after the other, every
\* snapshot of a pipeline with stats attached has total_items the length of
\* its own source, items_processed the length of its own output and
\* items_filtered the rest: nothing of an earlier run is counted in it.
C30_SerialRunsCountOwnSource ==
    [][\A p \in Pipes :
          /\ stats_'[p] # stats_[p] =>
                local_stats'[Target(stats_'[p])] = PipelineStats
          /\ \A i \in DOMAIN results'[p] :
                runlog'[p][i].stats # NULL =>
                    /\ results'[p][i].total_items = Len(source[p])
                    /\ results'[p][i].items_processed = Len(results'[p][i].data)
                    /\ results'[p][i].items_filtered =
                           Len(source[p]) - Len(results'[p][i].data)]_vars

\* C30 witness: A counted two elements in a block; B then attached the same
\* block (both pipelines have the same chain), collected a source of one
\* element and reports one.
C30_Witness ==
    /\ results["A"] # <<>> /\ results["B"] # <<>>
    /\ runlog["A"][1].stats # NULL
    /\ runlog["B"][1].stats = runlog["A"][1].stats
    /\ results["A"][1].total_items = 2
    /\ Len(source["B"]) = 1
    /\ results["B"][1].total_items = 1

====
